---- MODULE Spec2Model ----
(***************************************************************************)
(* pngglitch: the PNG chunk codec (Chunk), the chunk container (PNGFile)   *)
(* and the glitch engine (GlitchedPNGFile) of pngglitch/__init__.py.       *)
(*                                                                         *)
(* Bytes are integers 0..255, byte strings are sequences of bytes.  An     *)
(* optional value (Python None or a value) is a sequence of length 0 or 1. *)
(* zlib is a library: crc32 is modelled by a deterministic checksum of the *)
(* byte string, compress by the zlib stream of one stored block, with its  *)
(* Adler-32 trailer, and decompress by the parser of that stream.          *)
(***************************************************************************)
EXTENDS Integers, Sequences, FiniteSets, TLC

VARIABLES
    file,           \* Option: the bytes of the file given to the constructor
    raised,         \* "" or the name of the exception the last call raised
    header,         \* PNGFile.header
    chunks,         \* PNGFile.chunks
    _decompressed,  \* Option: GlitchedPNGFile._decompressed
    hist,           \* observations of the last call: its name and arguments,
                    \* the buffer and chunks before it, the bytes it wrote
    len0,           \* length of the working buffer right after begin_glitching
    opcount,        \* calls of primitives and of random_glitches made so far
    sessions,       \* begin_glitching calls made so far
    edits,          \* chunk edits (constructor, setter, raw assignment) so far
    rg,             \* the activation record of random_glitches, kept until
                    \* the next call
    heap,           \* the Chunk objects glitch_file works on, by identity:
                    \* heap[id] is the object's fields
    chunk_ids,      \* the identities of the objects in PNGFile.chunks
    gen,            \* Option: the generator that glitch_file returned
    yielded         \* the containers the generator has yielded, in order

\* the state that only glitch_file and the calls on its copies touch
copyvars == <<heap, chunk_ids, gen, yielded>>

vars == <<file, raised, header, chunks, _decompressed, hist, len0,
          opcount, sessions, edits, rg, heap, chunk_ids, gen, yielded>>

-----------------------------------------------------------------------------
(* Bounds of the model *)

\* length of the image data of the input files
BufLen == 4
\* largest length argument of an explicit primitive call: two blocks of
\* this length fit in the image data
MaxLen == BufLen \div 2
\* calls of primitives and of random_glitches per container
MaxOps == 1
\* glitching sessions per container
MaxSessions == 1
\* chunk edits per container
MaxEdits == 1
\* largest glitch_amount passed to random_glitches
MaxAmount == 3
\* largest number of copies asked of glitch_file
MaxCopies == 2

-----------------------------------------------------------------------------
(* Python built-ins *)

None == <<>>
Some(x) == <<x>>
IsNone(o) == Len(o) = 0
The(o) == o[1]

Min(a, b) == IF a < b THEN a ELSE b
Max(a, b) == IF a > b THEN a ELSE b

\* a slice index as Python normalises it for a sequence of length n
SliceIndex(i, n) == IF i < 0 THEN Max(i + n, 0) ELSE Min(i, n)

\* s[i:j]
Slice(s, i, j) == SubSeq(s, SliceIndex(i, Len(s)) + 1, SliceIndex(j, Len(s)))

\* s[i:j] = rep
SliceAssign(s, i, j, rep) ==
    LET lo == SliceIndex(i, Len(s))
        hi == Max(lo, SliceIndex(j, Len(s)))
    IN  SubSeq(s, 1, lo) \o rep \o SubSeq(s, hi + 1, Len(s))

\* del s[i:j]
SliceDelete(s, i, j) == SliceAssign(s, i, j, <<>>)

\* n * '\x00'
Repeat(b, n) == [i \in 1..Max(n, 0) |-> b]

\* file.read(n) at cursor cur: short at the end of the file
FileRead(f, cur, n) == SubSeq(f, cur + 1, Min(cur + n, Len(f)))

-----------------------------------------------------------------------------
(* zlib *)

RECURSIVE ChecksumFrom(_, _, _)
ChecksumFrom(h, s, i) ==
    IF i > Len(s) THEN h
    ELSE ChecksumFrom((h * 31 + s[i] + 1) % 67108864, s, i + 1)

\* zlib.crc32: a checksum of the byte string
crc32(s) == ChecksumFrom(0, s, 1)

RECURSIVE AdlerFrom(_, _, _, _)
AdlerFrom(a, b, s, i) ==
    IF i > Len(s) THEN <<b \div 256, b % 256, a \div 256, a % 256>>
    ELSE LET a2 == (a + s[i]) % 65521
         IN  AdlerFrom(a2, (b + a2) % 65521, s, i + 1)

\* the Adler-32 trailer of a zlib stream, big-endian
adler32(s) == AdlerFrom(1, 0, s, 1)

\* zlib.compress: header, one final stored block (LEN, NLEN, data), Adler-32
compress(buf) ==
    <<120, 1, 1, Len(buf) % 256, Len(buf) \div 256,
      255 - (Len(buf) % 256), 255 - (Len(buf) \div 256)>>
    \o buf \o adler32(buf)

\* zlib.decompress: [ok, data]; not ok stands for zlib.error
decompress_stream(s) ==
    LET n    == IF Len(s) >= 5 THEN s[4] + 256 * s[5] ELSE 0
        data == SubSeq(s, 8, 7 + n)
        good == /\ Len(s) >= 11
                /\ s[1] = 120 /\ s[2] = 1 /\ s[3] = 1
                /\ s[6] = 255 - s[4] /\ s[7] = 255 - s[5]
                /\ Len(s) = 11 + n
                /\ SubSeq(s, 8 + n, 11 + n) = adler32(data)
    IN  [ok |-> good, data |-> IF good THEN data ELSE <<>>]

-----------------------------------------------------------------------------
(* Chunk *)

IDAT == <<73, 68, 65, 84>>
IEND == <<73, 69, 78, 68>>
IHDR == <<73, 72, 68, 82>>
tEXt == <<116, 69, 88, 116>>

\* Chunk.set_long: 4 bytes, big-endian, truncated to 32 bits
set_long(num) == [i \in 1..4 |-> (num \div (2 ^ (8 * (4 - i)))) % 256]

RECURSIVE GetLongFrom(_, _)
GetLongFrom(buf, i) ==
    IF i > Len(buf) THEN 0
    ELSE buf[i] * (2 ^ (8 * (4 - i))) + GetLongFrom(buf, i + 1)

\* Chunk.get_long: the sum of byte << 8*(3-i) over the bytes present
get_long(buf) == GetLongFrom(buf, 1)

\* Chunk.compute_crc
compute_crc(chunk) == crc32(chunk.name \o chunk.raw_data)

\* the setter without update_crc
set_data_stale_crc(chunk, new_data) ==
    [chunk EXCEPT !.raw_data = new_data, !.length = Len(new_data)]

\* Chunk.data setter: raw_data, then update_crc, then length
set_data(chunk, new_data) ==
    LET c1 == [chunk EXCEPT !.raw_data = new_data]
        c2 == [c1 EXCEPT !.crc = compute_crc(c1)]
    IN  [c2 EXCEPT !.length = Len(new_data)]

\* Chunk.__init__ (name of 4 characters); crc -1 stands for None
Chunk(name, data) ==
    set_data([name |-> name, pos |-> 0, length |-> Len(data), crc |-> -1,
              raw_data |-> <<>>], data)

\* Chunk.from_file at the file cursor: [chunk, cur, ok]; not ok is TypeError
from_file(f, cur) ==
    LET length   == get_long(FileRead(f, cur, 4))
        name     == FileRead(f, cur + 4, 4)
        at       == Min(cur + 8, Len(f))
        raw_data == FileRead(f, at, length)
        at2      == Min(at + length, Len(f))
        crc      == get_long(FileRead(f, at2, 4))
    IN  [chunk |-> [name |-> name, pos |-> cur, length |-> length,
                    crc |-> crc, raw_data |-> raw_data],
         cur   |-> Min(at2 + 4, Len(f)),
         ok    |-> Len(name) = 4]

\* Chunk.copy
chunk_copy(chunk) ==
    [Chunk(chunk.name, <<>>) EXCEPT !.pos = chunk.pos,
                                    !.length = chunk.length,
                                    !.raw_data = chunk.raw_data,
                                    !.crc = chunk.crc]

\* Chunk.get_raw
get_raw(chunk) ==
    set_long(chunk.length) \o chunk.name \o chunk.raw_data
        \o set_long(chunk.crc)

\* Chunk.__len__
chunk_len(chunk) == chunk.length

\* Chunk.__nonzero__
chunk_nonzero(chunk) == chunk.length # 0

\* Chunk.check_data
check_data(chunk) == chunk.crc = compute_crc(chunk)

-----------------------------------------------------------------------------
(* PNGFile *)

magic_header == <<137, 80, 78, 71, 13, 10, 26, 10>>

RECURSIVE ReadChunks(_, _, _)
\* the loop of PNGFile.__init__: [ok, chunks]; not ok is TypeError
ReadChunks(f, cur, acc) ==
    LET r == from_file(f, cur)
    IN  IF ~r.ok THEN [ok |-> FALSE, chunks |-> acc]
        ELSE IF chunk_nonzero(r.chunk)
             THEN ReadChunks(f, r.cur, Append(acc, r.chunk))
             ELSE [ok |-> TRUE, chunks |-> acc]

\* PNGFile.__init__(image_name): [ok, header, chunks]
PNGFile(image) ==
    IF IsNone(image)
    THEN [ok |-> TRUE, header |-> magic_header, chunks |-> <<>>]
    ELSE LET f == The(image)
             h == FileRead(f, 0, 8)
         IN  IF h # magic_header
             THEN [ok |-> FALSE, header |-> h, chunks |-> <<>>]
             ELSE LET r == ReadChunks(f, 8, <<>>)
                  IN  [ok |-> r.ok, header |-> h, chunks |-> r.chunks]

\* PNGFile.idat_chunks
idat_chunks(chs) == SelectSeq(chs, LAMBDA c : c.name = IDAT)

\* various_chunks leaving out the IDAT chunks only
various_chunks_keep_iend(chs) == SelectSeq(chs, LAMBDA c : c.name # IDAT)

\* PNGFile.various_chunks
various_chunks(chs) == SelectSeq(chs, LAMBDA c : c.name \notin {IDAT, IEND})

RECURSIVE Join(_)
\* ''.join(chunk.data for chunk in ...)
Join(chs) ==
    IF chs = <<>> THEN <<>> ELSE Head(chs).raw_data \o Join(Tail(chs))

\* PNGFile.decompress: [ok, data]
decompress(chs) == decompress_stream(Join(idat_chunks(chs)))

\* buffer_to_chunks without the chunk for the remainder
buffer_to_chunks_no_rest(buf, chunk_size) ==
    LET zbuf        == compress(buf)
        chunk_count == Len(zbuf) \div chunk_size
    IN  [i \in 1..chunk_count |->
            Chunk(IDAT, Slice(zbuf, (i - 1) * chunk_size, i * chunk_size))]

\* PNGFile.buffer_to_chunks (chunk_size # 0)
buffer_to_chunks(buf, chunk_size) ==
    LET zbuf        == compress(buf)
        chunk_count == (Len(zbuf) \div chunk_size)
                       + (IF Len(zbuf) % chunk_size # 0 THEN 1 ELSE 0)
    IN  [i \in 1..chunk_count |->
            Chunk(IDAT, Slice(zbuf, (i - 1) * chunk_size, i * chunk_size))]

\* PNGFile.overload: [exc, chunks]; exc is "" or the exception raised
overload(chs, buf) ==
    IF idat_chunks(chs) = <<>>
    THEN [exc |-> "StopIteration", chunks |-> chs]
    ELSE LET chunk_size == chunk_len(Head(idat_chunks(chs)))
         IN  IF chunk_size = 0
             THEN [exc |-> "ZeroDivisionError", chunks |-> chs]
             ELSE [exc    |-> "",
                   chunks |-> various_chunks(chs)
                              \o buffer_to_chunks(buf, chunk_size)
                              \o <<Chunk(IEND, <<>>)>>]

RECURSIVE RawChunks(_)
RawChunks(chs) ==
    IF chs = <<>> THEN <<>> ELSE get_raw(Head(chs)) \o RawChunks(Tail(chs))

\* the bytes PNGFile.write puts in the file
file_bytes(h, chs) == h \o RawChunks(chs)

-----------------------------------------------------------------------------
(* GlitchedPNGFile: the glitch primitives on a working buffer.  A primitive
   yields the set of its possible outcomes [exc, buf]: one per value the
   random module can return; exc is "" or the exception raised, and buf the
   working buffer the call leaves behind. *)

\* the values random.randint(0, 255) is sampled from
NoiseBytes == {0, 255}

\* random.randint(a, b): empty when a > b (ValueError)
randint(a, b) == a..b

RECURSIVE random_bytes(_)
\* GlitchedPNGFile.random_bytes
random_bytes(length) ==
    IF length <= 0 THEN {<<>>}
    ELSE {<<b>> \o t : b \in NoiseBytes, t \in random_bytes(length - 1)}

\* GlitchedPNGFile._insert
_insert(buf, pos, ins) == SliceAssign(buf, pos, pos, ins)

\* GlitchedPNGFile._remove: [rem, buf]
_remove(buf, pos, length) ==
    [rem |-> Slice(buf, pos, pos + length),
     buf |-> SliceDelete(buf, pos, pos + length)]

\* replace without cutting the buffer back to its length
replace_no_cut(buf, pos, rep) == SliceAssign(buf, pos, pos + Len(rep), rep)

\* GlitchedPNGFile.replace
replace(buf, pos, rep) ==
    LET length == Len(buf)
        b1     == SliceAssign(buf, pos, pos + Len(rep), rep)
    IN  SliceDelete(b1, length, Len(b1))

\* a position argument: the one passed, or a random one from lo..hi
Position(pos, lo, hi) == IF IsNone(pos) THEN randint(lo, hi) ELSE {The(pos)}

Raise(exc, buf) == {[exc |-> exc, buf |-> buf]}

\* GlitchedPNGFile.fill_noise
fill_noise(buf, length, pos) ==
    LET ps == Position(pos, 0, Len(buf) - length)
    IN  IF ps = {} THEN Raise("ValueError", buf)
        ELSE {[exc |-> "", buf |-> replace(buf, p, rb)] :
                 p \in ps, rb \in random_bytes(length)}

\* fill_zeros writing one zero too many
fill_zeros_one_more(buf, length, pos) ==
    LET ps == Position(pos, 0, Len(buf) - length)
    IN  IF ps = {} THEN Raise("ValueError", buf)
        ELSE {[exc |-> "", buf |-> replace(buf, p, Repeat(0, length + 1))] :
                 p \in ps}

\* GlitchedPNGFile.fill_zeros
fill_zeros(buf, length, pos) ==
    LET ps == Position(pos, 0, Len(buf) - length)
    IN  IF ps = {} THEN Raise("ValueError", buf)
        ELSE {[exc |-> "", buf |-> replace(buf, p, Repeat(0, length))] :
                 p \in ps}

\* move taking to_ for an offset in the buffer before the removal
move_at_before_removal(buf, length, from_, to_) ==
    LET r == _remove(buf, from_, length)
    IN  _insert(r.buf, to_ - length, r.rem)

\* the body of move once both positions are known
move_at(buf, length, from_, to_) ==
    LET r == _remove(buf, from_, length)
    IN  _insert(r.buf, to_, r.rem)

\* GlitchedPNGFile.move
move(buf, length, from_, to_) ==
    LET fs == Position(from_, 0, Len(buf) - length)
        ts == Position(to_, 0, Len(buf) - length)
    IN  IF fs = {} \/ ts = {} THEN Raise("ValueError", buf)
        ELSE {[exc |-> "", buf |-> move_at(buf, length, f, t)] :
                 f \in fs, t \in ts}

\* switch from line 615 on, all four arguments known
switch_at(buf, len_one, pos_one, len_two, pos_two) ==
    LET swap == pos_one > pos_two
        p1   == IF swap THEN pos_two ELSE pos_one
        p2   == IF swap THEN pos_one ELSE pos_two
        l1   == IF swap THEN len_two ELSE len_one
        l2   == IF swap THEN len_one ELSE len_two
    IN  IF ~(p1 + l1 <= p2)
        THEN [exc |-> "AssertionError", buf |-> buf]
        ELSE [exc |-> "",
              buf |-> move_at(move_at(buf, l2, p2, p1 + l1), l1, p1, p2)]

\* GlitchedPNGFile.switch
switch(buf, len_one, pos_one, len_two, pos_two) ==
    LET twos == Position(len_two, 1, len_one)
    IN  IF twos = {} THEN Raise("ValueError", buf)
        ELSE UNION {
          LET l2  == two
              l1  == IF IsNone(len_two) THEN len_one - two ELSE len_one
              p1s == Position(pos_one, 0, Len(buf) - l1 - l2)
          IN  IF p1s = {} THEN Raise("ValueError", buf)
              ELSE UNION {
                LET p2s == Position(pos_two, p1 + l1, Len(buf) - l2)
                IN  IF p2s = {} THEN Raise("ValueError", buf)
                    ELSE {switch_at(buf, l1, p1, l2, p2) : p2 \in p2s}
                : p1 \in p1s}
          : two \in twos}

-----------------------------------------------------------------------------
(* The files given to the constructor *)

\* a chunk as the PNG format lays it out: length, type, payload, CRC
PngChunk(name, payload) ==
    set_long(Len(payload)) \o name \o payload \o set_long(crc32(name \o payload))

\* a chunk whose CRC field does not match its payload
BadCrcChunk(name, payload) ==
    set_long(Len(payload)) \o name \o payload
        \o set_long((crc32(name \o payload) + 1) % 67108864)

RECURSIVE IdatChunks(_, _)
\* a zlib stream cut into IDAT chunks of n bytes, the last one shorter
IdatChunks(z, n) ==
    IF Len(z) = 0 THEN <<>>
    ELSE PngChunk(IDAT, SubSeq(z, 1, Min(n, Len(z))))
         \o IdatChunks(SubSeq(z, n + 1, Len(z)), n)

\* the image data of the input files: all white, and one with every byte
\* different, on which a moved byte shows
Blank == [i \in 1..BufLen |-> 255]
Ramp == [i \in 1..BufLen |-> i]

\* well-formed PNG files: signature, chunks, then the empty IEND chunk
ValidFiles ==
    { magic_header \o PngChunk(IHDR, <<16, 16>>)
        \o IdatChunks(compress(Blank), 4) \o PngChunk(IEND, <<>>),
      magic_header \o PngChunk(IHDR, <<16, 16>>) \o PngChunk(tEXt, <<97>>)
        \o IdatChunks(compress(Blank), 5) \o PngChunk(tEXt, <<98>>)
        \o PngChunk(IEND, <<>>),
      magic_header \o PngChunk(IHDR, <<1, 1>>)
        \o IdatChunks(compress(<<>>), 20) \o PngChunk(IEND, <<>>) }

\* files that are no well-formed PNG: an empty chunk amid the others, no
\* IDAT chunk, a corrupt zlib stream, a CRC that does not match and an IEND
\* chunk with a payload amid the others, no IEND chunk, a wrong signature
BrokenFiles ==
    { magic_header \o PngChunk(IHDR, <<16, 16>>) \o PngChunk(tEXt, <<>>)
        \o IdatChunks(compress(Blank), 4) \o PngChunk(IEND, <<>>),
      magic_header \o PngChunk(IHDR, <<16, 16>>) \o PngChunk(IEND, <<>>),
      magic_header \o PngChunk(IHDR, <<16, 16>>)
        \o PngChunk(IDAT, <<120, 1, 1, 0>>) \o PngChunk(IEND, <<>>),
      magic_header \o BadCrcChunk(IHDR, <<16, 16>>)
        \o IdatChunks(compress(Blank), 4) \o PngChunk(IEND, <<1>>)
        \o PngChunk(tEXt, <<99>>) \o PngChunk(IEND, <<>>),
      magic_header \o PngChunk(IHDR, <<16, 16>>)
        \o IdatChunks(compress(Blank), 4),
      <<137, 80, 78, 71>> \o PngChunk(IEND, <<>>) }

Files == ValidFiles \cup BrokenFiles

\* the image data of a picture of one pixel: the filter byte and the pixel
Pixel == <<0, 255>>

\* a well-formed PNG file of one pixel, with a text chunk
PixelFile ==
    magic_header \o PngChunk(IHDR, <<1, 1>>) \o PngChunk(tEXt, <<97>>)
        \o IdatChunks(compress(Pixel), 7) \o PngChunk(IEND, <<>>)

\* the files glitch_file is called on: the picture of one pixel and a file
\* with no image data
CopyFiles ==
    { PixelFile,
      magic_header \o PngChunk(IHDR, <<1, 1>>) \o PngChunk(IEND, <<>>) }

\* the files whose image data the explicit primitive calls work on
SessionFiles ==
    { magic_header \o PngChunk(IHDR, <<16, 16>>)
        \o IdatChunks(compress(Ramp), 4) \o PngChunk(IEND, <<>>) }

-----------------------------------------------------------------------------
(* State *)

NoCall == [op |-> "", args |-> <<>>, before |-> None, old |-> <<>>,
           out |-> None]

Idle == [pc |-> "idle", glitch_amount |-> 0, total |-> 0, sum |-> 0]

\* GlitchedPNGFile.__init__(image_name)
Construct(image) ==
    LET r == PNGFile(image)
    IN  /\ file = image
        /\ raised = IF r.ok THEN "" ELSE "TypeError"
        /\ header = r.header
        /\ chunks = r.chunks
        /\ _decompressed = None
        /\ hist = [NoCall EXCEPT !.op = "__init__"]
        /\ len0 = 0
        /\ opcount = 0
        /\ sessions = 0
        /\ edits = 0
        /\ rg = Idle
        /\ heap = r.chunks
        /\ chunk_ids = [i \in 1..Len(r.chunks) |-> i]
        /\ gen = None
        /\ yielded = <<>>

Init == \E image \in {None} \cup {Some(f) : f \in Files} : Construct(image)

\* GlitchedPNGFile(image_name) followed by begin_glitching()
Begun(image) ==
    LET r == PNGFile(image)
        d == decompress(r.chunks)
    IN  /\ r.ok /\ d.ok
        /\ file = image
        /\ raised = ""
        /\ header = r.header
        /\ chunks = r.chunks
        /\ _decompressed = Some(d.data)
        /\ hist = [NoCall EXCEPT !.op = "begin_glitching"]
        /\ len0 = Len(d.data)
        /\ opcount = 0
        /\ sessions = 1
        /\ edits = 0
        /\ rg = Idle
        /\ heap = r.chunks
        /\ chunk_ids = [i \in 1..Len(r.chunks) |-> i]
        /\ gen = None
        /\ yielded = <<>>

InitPrim ==
    \E f \in SessionFiles : Construct(Some(f)) \/ Begun(Some(f))

\* the constructor returned an object, and no call on it is under way
Callable == /\ ~(hist.op = "__init__" /\ raised = "TypeError")
            /\ rg.pc # "loop"

-----------------------------------------------------------------------------
(* Calls on the container *)

\* PNGFile.write(name)
write ==
    /\ UNCHANGED copyvars
    /\ Callable
    /\ raised' = ""
    /\ hist' = [NoCall EXCEPT !.op = "write",
                              !.out = Some(file_bytes(header, chunks))]
    /\ rg' = Idle
    /\ UNCHANGED <<file, header, chunks, _decompressed, len0, opcount,
                   sessions, edits>>

\* GlitchedPNGFile.begin_glitching()
begin_glitching ==
    /\ UNCHANGED copyvars
    /\ Callable
    /\ sessions < MaxSessions
    /\ sessions' = sessions + 1
    /\ hist' = [NoCall EXCEPT !.op = "begin_glitching"]
    /\ LET r == decompress(chunks)
       IN  IF r.ok
           THEN /\ _decompressed' = Some(r.data)
                /\ len0' = Len(r.data)
                /\ raised' = ""
           ELSE /\ raised' = "zlib.error"
                /\ UNCHANGED <<_decompressed, len0>>
    /\ rg' = Idle
    /\ UNCHANGED <<file, header, chunks, opcount, edits>>

\* end_glitching leaving the working buffer in place
end_glitching_keeps_buffer ==
    /\ UNCHANGED copyvars
    /\ Callable
    /\ hist' = [NoCall EXCEPT !.op = "end_glitching",
                              !.before = _decompressed, !.old = chunks]
    /\ IF idat_chunks(chunks) # <<>> /\ IsNone(_decompressed)
       THEN \* zlib.compress(buffer(None))
            /\ raised' = "TypeError"
            /\ UNCHANGED <<chunks, _decompressed>>
       ELSE LET r == overload(chunks, IF IsNone(_decompressed) THEN <<>>
                                      ELSE The(_decompressed))
            IN  IF r.exc # ""
                THEN /\ raised' = r.exc
                     /\ UNCHANGED <<chunks, _decompressed>>
                ELSE /\ raised' = ""
                     /\ chunks' = r.chunks
                     /\ UNCHANGED _decompressed
    /\ rg' = Idle
    /\ UNCHANGED <<file, header, len0, opcount, sessions, edits>>

\* GlitchedPNGFile.end_glitching()
end_glitching ==
    /\ UNCHANGED copyvars
    /\ Callable
    /\ hist' = [NoCall EXCEPT !.op = "end_glitching",
                              !.before = _decompressed, !.old = chunks]
    /\ IF idat_chunks(chunks) # <<>> /\ IsNone(_decompressed)
       THEN \* zlib.compress(buffer(None))
            /\ raised' = "TypeError"
            /\ UNCHANGED <<chunks, _decompressed>>
       ELSE LET r == overload(chunks, IF IsNone(_decompressed) THEN <<>>
                                      ELSE The(_decompressed))
            IN  IF r.exc # ""
                THEN /\ raised' = r.exc
                     /\ UNCHANGED <<chunks, _decompressed>>
                ELSE /\ raised' = ""
                     /\ chunks' = r.chunks
                     /\ _decompressed' = None
    /\ rg' = Idle
    /\ UNCHANGED <<file, header, len0, opcount, sessions, edits>>

\* payloads given to the chunk constructor and the data setter
Payloads == {<<>>, <<7>>}

\* chunk.data = new_data on the chunk at index i
set_payload ==
    /\ UNCHANGED copyvars
    /\ Callable
    /\ edits < MaxEdits
    /\ \E i \in 1..Len(chunks), new_data \in Payloads :
          /\ chunks' = [chunks EXCEPT ![i] = set_data(chunks[i], new_data)]
          /\ hist' = [NoCall EXCEPT !.op = "set_payload", !.args = <<i>>]
    /\ edits' = edits + 1
    /\ raised' = ""
    /\ rg' = Idle
    /\ UNCHANGED <<file, header, _decompressed, len0, opcount,
                   sessions>>

\* chunk.raw_data = new_data on the chunk at index i, past the setter
set_raw_data ==
    /\ UNCHANGED copyvars
    /\ Callable
    /\ edits < MaxEdits
    /\ \E i \in 1..Len(chunks), new_data \in Payloads :
          /\ chunks' = [chunks EXCEPT ![i].raw_data = new_data]
          /\ hist' = [NoCall EXCEPT !.op = "set_raw_data", !.args = <<i>>]
    /\ edits' = edits + 1
    /\ raised' = ""
    /\ rg' = Idle
    /\ UNCHANGED <<file, header, _decompressed, len0, opcount,
                   sessions>>

\* chunks.append(Chunk(name, data))
new_chunk ==
    /\ UNCHANGED copyvars
    /\ Callable
    /\ edits < MaxEdits
    /\ \E name \in {IDAT, tEXt}, data \in Payloads :
          /\ chunks' = Append(chunks, Chunk(name, data))
          /\ hist' = [NoCall EXCEPT !.op = "Chunk",
                                    !.args = <<Len(chunks) + 1>>]
    /\ edits' = edits + 1
    /\ raised' = ""
    /\ rg' = Idle
    /\ UNCHANGED <<file, header, _decompressed, len0, opcount,
                   sessions>>

\* replacing one chunk by its copy: chunks[i] = chunks[i].copy()
copy_chunk ==
    /\ UNCHANGED copyvars
    /\ Callable
    /\ edits < MaxEdits
    /\ \E i \in 1..Len(chunks) :
          /\ chunks' = [chunks EXCEPT ![i] = chunk_copy(chunks[i])]
          /\ hist' = [NoCall EXCEPT !.op = "copy", !.args = <<i>>]
    /\ edits' = edits + 1
    /\ raised' = ""
    /\ rg' = Idle
    /\ UNCHANGED <<file, header, _decompressed, len0, opcount,
                   sessions>>

-----------------------------------------------------------------------------
(* Calls of the glitch primitives *)

\* the working buffer, empty when there is none
Buf == IF IsNone(_decompressed) THEN <<>> ELSE The(_decompressed)

\* a primitive called with arguments args, outs its possible outcomes on Buf
\* and idle_exc the exception it raises when there is no working buffer
PrimCall(op, args, outs, idle_exc) ==
    /\ UNCHANGED copyvars
    /\ Callable
    /\ opcount < MaxOps
    /\ opcount' = opcount + 1
    /\ hist' = [NoCall EXCEPT !.op = op, !.args = args,
                              !.before = _decompressed]
    /\ IF IsNone(_decompressed)
       THEN /\ raised' = idle_exc
            /\ UNCHANGED _decompressed
       ELSE \E o \in outs :
               /\ raised' = o.exc
               /\ _decompressed' = Some(o.buf)
    /\ rg' = Idle
    /\ UNCHANGED <<file, header, chunks, len0, sessions, edits>>

\* the arguments of the explicit calls
Lengths == 0..MaxLen
Positions == 0..Len(Buf)
OptLengths == {None} \cup {Some(n) : n \in Lengths}
OptPositions == {None} \cup {Some(p) : p \in Positions}
Replacements == UNION {random_bytes(n) : n \in Lengths}

\* replace(pos, rep)
call_replace ==
    \E pos \in Positions, rep \in Replacements :
        PrimCall("replace", <<pos, rep>>,
                 {[exc |-> "", buf |-> replace(Buf, pos, rep)]}, "TypeError")

\* fill_noise(length, pos) and fill_noise(length)
call_fill_noise ==
    \E length \in Lengths, pos \in OptPositions :
        PrimCall("fill_noise", <<length, pos>>,
                 fill_noise(Buf, length, pos), "TypeError")

\* fill_zeros(length, pos) and fill_zeros(length)
call_fill_zeros ==
    \E length \in Lengths, pos \in OptPositions :
        PrimCall("fill_zeros", <<length, pos>>,
                 fill_zeros(Buf, length, pos), "TypeError")

\* move(length, from_, to_), positions passed or not
call_move ==
    \E length \in Lengths, from_ \in OptPositions, to_ \in OptPositions :
        PrimCall("move", <<length, from_, to_>>,
                 move(Buf, length, from_, to_), "TypeError")

\* what switch raises without a working buffer: randint(1, len_one) and the
\* assertion come before the first use of the buffer
switch_idle(len_one, pos_one, len_two, pos_two) ==
    IF IsNone(len_two) /\ len_one < 1 THEN "ValueError"
    ELSE IF IsNone(pos_one) \/ IsNone(pos_two) \/ IsNone(len_two)
         THEN "TypeError"
         ELSE LET r == switch_at(<<>>, len_one, The(pos_one), The(len_two),
                                 The(pos_two))
              IN  IF r.exc = "" THEN "TypeError" ELSE r.exc

\* switch(len_one, pos_one, len_two, pos_two): len_two passed or not, the two
\* positions both passed or both left out
call_switch ==
    \E len_one \in Lengths, pos_one \in OptPositions,
       len_two \in OptLengths, pos_two \in OptPositions :
        /\ IsNone(pos_one) <=> IsNone(pos_two)
        /\ PrimCall("switch", <<len_one, pos_one, len_two, pos_two>>,
                 switch(Buf, len_one, pos_one, len_two, pos_two),
                 switch_idle(len_one, pos_one, len_two, pos_two))

-----------------------------------------------------------------------------
(* random_glitches *)

\* the values int(random.gauss(glitch_size, glitch_dev)) is sampled from
Samples == 1..(MaxAmount + 1)

\* the size of one glitch, not cut down to the budget left
clamp_from_below(sample, glitch_amount) == Max(sample, 2)

\* the size of one glitch, with no least size
clamp_no_floor(sample, glitch_amount) == Min(sample, glitch_amount)

\* line 460: the size of one glitch
clamp(sample, glitch_amount) == Min(Max(sample, 2), glitch_amount)

\* a member of method_list called with the size only, on a buffer
method_on(buf, m, amount) ==
    CASE m = "fill_noise" -> fill_noise(buf, amount, None)
      [] m = "fill_zeros" -> fill_zeros(buf, amount, None)
      [] m = "move"       -> move(buf, amount, None, None)
      [] m = "switch"     -> switch(buf, amount, None, None, None)

\* the members of method_list, called with the size only
Method(m, amount) == method_on(Buf, m, amount)

method_list == {"fill_noise", "fill_zeros", "move", "switch"}

\* random_glitches(glitch_amount, glitch_size, glitch_dev) is entered
random_glitches ==
    /\ UNCHANGED copyvars
    /\ Callable
    /\ opcount < MaxOps
    /\ opcount' = opcount + 1
    /\ \E glitch_amount \in 0..MaxAmount :
          rg' = [pc |-> "loop", glitch_amount |-> glitch_amount,
                 total |-> glitch_amount, sum |-> 0]
    /\ hist' = [NoCall EXCEPT !.op = "random_glitches"]
    /\ raised' = ""
    /\ UNCHANGED <<file, header, chunks, _decompressed, len0,
                   sessions, edits>>

\* one iteration of the while loop, lines 458 to 462
random_glitches_iter ==
    /\ UNCHANGED copyvars
    /\ rg.pc = "loop"
    /\ rg.glitch_amount > 0
    /\ \E amount \in {clamp(sample, rg.glitch_amount) : sample \in Samples},
          m \in method_list :
          LET idle   == IF m = "switch"
                        THEN switch_idle(amount, None, None, None)
                        ELSE "TypeError"
          IN  /\ hist' = [NoCall EXCEPT !.op = m, !.args = <<amount>>]
              /\ \E o \in (IF IsNone(_decompressed)
                           THEN Raise(idle, <<>>) ELSE Method(m, amount)) :
                    /\ raised' = o.exc
                    /\ _decompressed' = IF IsNone(_decompressed) THEN None
                                        ELSE Some(o.buf)
                    /\ rg' = [rg EXCEPT
                                !.pc = IF o.exc = "" THEN "loop" ELSE "raised",
                                !.glitch_amount = @ - amount,
                                !.sum = @ + amount]
    /\ UNCHANGED <<file, header, chunks, len0, opcount, sessions,
                   edits>>

\* the while loop ends and random_glitches returns
random_glitches_return ==
    /\ UNCHANGED copyvars
    /\ rg.pc = "loop"
    /\ rg.glitch_amount <= 0
    /\ rg' = [rg EXCEPT !.pc = "done"]
    /\ UNCHANGED <<file, raised, header, chunks, _decompressed, hist,
                   len0, opcount, sessions, edits>>

-----------------------------------------------------------------------------
(* glitch_file *)

RECURSIVE random_glitches_on(_, _)
\* random_glitches on a working buffer, from its call to its return or to the
\* exception that ends it: the possible outcomes [exc, buf]
random_glitches_on(buf, glitch_amount) ==
    IF glitch_amount <= 0 THEN {[exc |-> "", buf |-> buf]}
    ELSE UNION {
           UNION {IF o.exc # "" THEN {o}
                  ELSE random_glitches_on(o.buf, glitch_amount - amount) :
                     o \in method_on(buf, m, amount)} :
              amount \in {clamp(sample, glitch_amount) : sample \in Samples},
              m \in method_list}

\* the Chunk objects behind a list of identities
Deref(h, ids) == [i \in 1..Len(ids) |-> h[ids[i]]]

\* the identities of n objects made next
NewIds(h, n) == [i \in 1..n |-> Len(h) + i]

\* PNGFile.copy giving the new container the Chunk objects of the old one
PNGFile_copy_shared(h, ids) ==
    [heap |-> h, header |-> PNGFile(None).header, chunks |-> ids]

\* PNGFile.copy: [heap, header, chunks], the new container made by
\* type(self)() and its chunks by Chunk.copy
PNGFile_copy(h, ids) ==
    [heap   |-> h \o [i \in 1..Len(ids) |-> chunk_copy(h[ids[i]])],
     header |-> PNGFile(None).header,
     chunks |-> NewIds(h, Len(ids))]

\* PNGFile.overload on a container of Chunk objects: [exc, heap, chunks];
\* the chunks that various_chunks yields stay the objects they were, the
\* IDAT chunks and the IEND chunk are new objects
overload_in(h, ids, buf) ==
    LET r    == overload(Deref(h, ids), buf)
        kept == SelectSeq(ids, LAMBDA id : various_chunks(<<h[id]>>) # <<>>)
        made == SubSeq(r.chunks, Len(kept) + 1, Len(r.chunks))
    IN  IF r.exc # "" THEN [exc |-> r.exc, heap |-> h, chunks |-> ids]
        ELSE [exc    |-> "",
              heap   |-> h \o made,
              chunks |-> kept \o NewIds(h, Len(made))]

\* one iteration of the for loop of glitch_file, lines 481 to 485: the
\* possible outcomes [exc, heap, copy], copy the container yielded
glitch_file_iter(h, ids, glitch_amount) ==
    LET c == PNGFile_copy(h, ids)
        d == decompress(Deref(c.heap, c.chunks))
    IN  IF ~d.ok
        THEN {[exc |-> "zlib.error", heap |-> c.heap, copy |-> None]}
        ELSE {LET e == overload_in(c.heap, c.chunks, o.buf)
              IN  IF o.exc # ""
                  THEN [exc |-> o.exc, heap |-> c.heap, copy |-> None]
                  ELSE IF e.exc # ""
                  THEN [exc |-> e.exc, heap |-> c.heap, copy |-> None]
                  ELSE [exc  |-> "",
                        heap |-> e.heap,
                        copy |-> Some([header        |-> c.header,
                                       chunks        |-> e.chunks,
                                       _decompressed |-> None])] :
                 o \in random_glitches_on(d.data, glitch_amount)}

\* glitch_file(glitch_amount, glitch_size, glitch_dev, copies) is called and
\* returns its generator, none of its body run yet
glitch_file ==
    /\ Callable
    /\ IsNone(gen)
    /\ \E glitch_amount \in 0..MaxAmount, copies \in 0..MaxCopies :
          gen' = Some([glitch_amount |-> glitch_amount, copies |-> copies,
                       pc |-> "suspended"])
    /\ hist' = [NoCall EXCEPT !.op = "glitch_file"]
    /\ raised' = ""
    /\ rg' = Idle
    /\ UNCHANGED <<file, header, chunks, _decompressed, len0, opcount,
                   sessions, edits, heap, chunk_ids, yielded>>

\* next() on the generator: the loop runs to its next yield, to its end
\* (StopIteration) or to an exception, which finishes the generator
glitch_file_next ==
    /\ Callable
    /\ ~IsNone(gen)
    /\ hist' = [NoCall EXCEPT !.op = "next"]
    /\ LET g == The(gen)
       IN  IF g.pc = "finished" \/ Len(yielded) >= g.copies
           THEN /\ raised' = "StopIteration"
                /\ gen' = Some([g EXCEPT !.pc = "finished"])
                /\ UNCHANGED <<heap, yielded, chunks>>
           ELSE \E o \in glitch_file_iter(heap, chunk_ids, g.glitch_amount) :
                   /\ raised' = o.exc
                   /\ heap' = o.heap
                   /\ chunks' = Deref(o.heap, chunk_ids)
                   /\ IF o.exc = ""
                      THEN /\ yielded' = Append(yielded, The(o.copy))
                           /\ UNCHANGED gen
                      ELSE /\ gen' = Some([g EXCEPT !.pc = "finished"])
                           /\ UNCHANGED yielded
    /\ rg' = Idle
    /\ UNCHANGED <<file, header, _decompressed, len0, opcount, sessions,
                   edits, chunk_ids>>

\* chunk.data = new_data on chunk i of the container yielded last, the k-th
copy_set_payload ==
    /\ Callable
    /\ edits < MaxEdits
    /\ \E k \in {Len(yielded)} \ {0}, new_data \in Payloads \ {<<>>} :
          \E i \in 1..Len(yielded[k].chunks) :
             /\ heap' = [heap EXCEPT ![yielded[k].chunks[i]] =
                                        set_data(@, new_data)]
             /\ hist' = [NoCall EXCEPT !.op = "copy_set_payload",
                                       !.args = <<k, i>>]
    /\ chunks' = Deref(heap', chunk_ids)
    /\ edits' = edits + 1
    /\ raised' = ""
    /\ rg' = Idle
    /\ UNCHANGED <<file, header, _decompressed, len0, opcount, sessions,
                   chunk_ids, gen, yielded>>

-----------------------------------------------------------------------------
(* Specifications *)

\* the container and one glitching run after the other, as the command-line
\* script and the documented second mode of use drive them
Next ==
    \/ write
    \/ begin_glitching
    \/ end_glitching
    \/ random_glitches
    \/ random_glitches_iter
    \/ random_glitches_return

Spec == Init /\ [][Next]_vars

\* the glitch primitives called on a container that was just loaded, and on
\* one whose image data begin_glitching has unpacked
NextPrim ==
    \/ call_replace
    \/ call_fill_noise
    \/ call_fill_zeros
    \/ call_move
    \/ call_switch

SpecPrim == InitPrim /\ [][NextPrim]_vars

\* the chunks of a container edited and written
NextChunk ==
    \/ set_payload
    \/ set_raw_data
    \/ new_chunk
    \/ copy_chunk
    \/ write

SpecChunk == Init /\ [][NextChunk]_vars

\* random_glitches called on a container that was just loaded, and on one
\* whose image data begin_glitching has unpacked
InitRandom ==
    \E f \in ValidFiles \cup {PixelFile} :
        Construct(Some(f)) \/ Begun(Some(f))

NextRandom ==
    \/ random_glitches
    \/ random_glitches_iter
    \/ random_glitches_return

SpecRandom == InitRandom /\ [][NextRandom]_vars

\* the files of the glitching sessions: one whose image data shows every
\* move, and those that load but whose image data does not inflate
InitSession ==
    \E f \in SessionFiles \cup
              {b \in BrokenFiles : /\ PNGFile(Some(b)).ok
                                   /\ ~decompress(PNGFile(Some(b)).chunks).ok} :
        Construct(Some(f))

\* glitching sessions: begin_glitching, primitives and end_glitching in any
\* order
NextSession ==
    \/ begin_glitching
    \/ end_glitching
    \/ call_replace
    \/ call_fill_noise
    \/ call_fill_zeros
    \/ call_move

SpecSession == InitSession /\ [][NextSession]_vars

\* glitch_file on a loaded container, its generator run, and the containers
\* it yields edited
InitCopies == \E f \in CopyFiles : Construct(Some(f))

NextCopies ==
    \/ glitch_file
    \/ glitch_file_next
    \/ copy_set_payload

SpecCopies == InitCopies /\ [][NextCopies]_vars

\* random_glitches runs on once it is entered
FairSpec ==
    /\ SpecRandom
    /\ WF_vars(random_glitches_return \/ random_glitches_iter)

-----------------------------------------------------------------------------
(* Properties *)

\* the container still holds what the constructor read from the file
AsLoaded ==
    /\ ~IsNone(file)
    /\ header = PNGFile(file).header
    /\ chunks = PNGFile(file).chunks

\* C1: a well-formed PNG file that is loaded and written back with no chunk
\* changed in between is written byte for byte as it was read.
C1_RoundTrip ==
    (/\ hist.op = "write"
     /\ ~IsNone(file)
     /\ The(file) \in ValidFiles
     /\ AsLoaded)
    => The(hist.out) = The(file)

\* the chunk that the last chunk edit made or changed
Edited == chunks[hist.args[1]]

\* C2: right after a payload is set through the data setter, and right after
\* Chunk(name, data), the chunk's length is the length of its payload and
\* its crc is crc32 of its type followed by its payload.
C2_SetterKeepsLengthAndCrc ==
    hist.op \in {"set_payload", "Chunk"}
    => /\ Edited.length = Len(Edited.raw_data)
       /\ Edited.crc = crc32(Edited.name \o Edited.raw_data)

\* a chunk read from a file got another payload through the setter, and a
\* CRC that differs from the one it was read with
C2_Witness ==
    /\ hist.op = "set_payload"
    /\ Edited.pos > 0
    /\ Edited.raw_data # PNGFile(file).chunks[hist.args[1]].raw_data
    /\ Edited.crc # PNGFile(file).chunks[hist.args[1]].crc

\* C3: the bytes get_raw emits for a chunk carry the length of the chunk's
\* current payload and crc32 of its type and current payload, whatever the
\* stored length and crc are.
C3_EncodeRederives ==
    \A i \in 1..Len(chunks) :
        get_raw(chunks[i]) =
            set_long(Len(chunks[i].raw_data)) \o chunks[i].name
                \o chunks[i].raw_data
                \o set_long(crc32(chunks[i].name \o chunks[i].raw_data))

\* end_glitching has just replaced the image data
Overloaded == hist.op = "end_glitching" /\ raised = ""

RECURSIVE IdatPayloads(_)
\* the payloads of the IDAT chunks of a chunk list, one after the other
IdatPayloads(chs) ==
    IF chs = <<>> THEN <<>>
    ELSE (IF Head(chs).name = IDAT THEN Head(chs).raw_data ELSE <<>>)
         \o IdatPayloads(Tail(chs))

\* C4: after the image data is replaced by a buffer, the payloads of the new
\* IDAT chunks, in list order, make up the compressed stream of the buffer,
\* and inflating them gives the buffer back.
C4_IdatPayloadsAreTheStream ==
    Overloaded
    => /\ IdatPayloads(chunks) = compress(The(hist.before))
       /\ decompress_stream(IdatPayloads(chunks)).ok
       /\ decompress_stream(IdatPayloads(chunks)).data = The(hist.before)

\* a glitched buffer was packed into several IDAT chunks, the last one
\* shorter than the first
C4_Witness ==
    /\ Overloaded
    /\ The(hist.before) # Blank
    /\ Len(The(hist.before)) = BufLen
    /\ Len(idat_chunks(chunks)) >= 3
    /\ idat_chunks(chunks)[Len(idat_chunks(chunks))].length
         < idat_chunks(chunks)[1].length

RECURSIVE Others(_)
\* the chunks of a list that are neither IDAT nor IEND, in their order
Others(chs) ==
    IF chs = <<>> THEN <<>>
    ELSE IF Head(chs).name = IDAT \/ Head(chs).name = IEND
         THEN Others(Tail(chs))
         ELSE <<Head(chs)>> \o Others(Tail(chs))

\* C5: after the image data is replaced, the chunk list is the former chunks
\* other than IDAT and IEND, unchanged and in their order, then IDAT chunks
\* only, then one IEND chunk with no payload.
C5_ChunkListAfterOverload ==
    Overloaded
    => LET n == Len(Others(hist.old))
           m == Len(chunks)
       IN  /\ m > n
           /\ SubSeq(chunks, 1, n) = Others(hist.old)
           /\ \A i \in (n + 1)..(m - 1) : chunks[i].name = IDAT
           /\ chunks[m].name = IEND
           /\ chunks[m].raw_data = <<>>
           /\ chunks[m].length = 0

\* the former list had an IEND chunk, and a chunk of another type after its
\* first IDAT chunk, which now stands before the image data
C5_Witness ==
    /\ Overloaded
    /\ \E i \in 1..Len(hist.old) : hist.old[i].name = IEND
    /\ \E i, j \in 1..Len(hist.old) :
          /\ i < j
          /\ hist.old[i].name = IDAT
          /\ hist.old[j].name = tEXt
    /\ Len(idat_chunks(chunks)) >= 2

\* C6: while a working buffer exists, its length is the length it had right
\* after begin_glitching, whatever primitives were called since, with
\* positions passed or left to chance.
C6_SizeInvariance ==
    ~IsNone(_decompressed) => Len(Buf) = len0

\* a primitive has changed the buffer
C6_Witness ==
    /\ ~IsNone(_decompressed)
    /\ opcount >= 1
    /\ hist.op \in {"replace", "fill_noise", "fill_zeros", "move", "switch"}
    /\ raised = ""
    /\ Buf # The(hist.before)
    /\ Len(Buf) = BufLen

\* the last call was switch with both lengths and both positions passed, on
\* a working buffer, and it returned
SwitchExplicit ==
    /\ hist.op = "switch"
    /\ raised = ""
    /\ ~IsNone(hist.before)
    /\ ~IsNone(hist.args[2]) /\ ~IsNone(hist.args[3]) /\ ~IsNone(hist.args[4])

\* C7: switch on two blocks that do not overlap and lie within the buffer
\* leaves every byte before pos_one and every byte from pos_two + len_two on
\* as it was, whatever the two lengths.
C7_SwitchLeavesOutsideAlone ==
    SwitchExplicit
    => LET len_one == hist.args[1]
           pos_one == The(hist.args[2])
           len_two == The(hist.args[3])
           pos_two == The(hist.args[4])
           b       == The(hist.before)
       IN  (pos_one + len_one <= pos_two /\ pos_two + len_two <= Len(b))
           => \A k \in 1..Len(b) :
                 (k <= pos_one \/ k > pos_two + len_two)
                 => (k <= Len(Buf) /\ Buf[k] = b[k])

\* the last call was move with both positions passed, on a working buffer
MoveExplicit ==
    /\ hist.op = "move"
    /\ raised = ""
    /\ ~IsNone(hist.before)
    /\ ~IsNone(hist.args[2]) /\ ~IsNone(hist.args[3])

\* s without the n elements from offset at on
Without(s, at, n) == SubSeq(s, 1, at) \o SubSeq(s, at + n + 1, Len(s))

\* C8 as stated: move(length, from, to) with from + length <= to puts the
\* bytes of [from, from+length) at [to-length, to), the buffer keeps its
\* length and the other bytes their order.
C8_MoveLandsBeforeTo ==
    MoveExplicit
    => LET length == hist.args[1]
           from_  == The(hist.args[2])
           to_    == The(hist.args[3])
           b      == The(hist.before)
       IN  (from_ + length <= to_ /\ to_ <= Len(b))
           => /\ Len(Buf) = Len(b)
              /\ SubSeq(Buf, to_ - length + 1, to_)
                   = SubSeq(b, from_ + 1, from_ + length)
              /\ Without(Buf, to_ - length, length)
                   = Without(b, from_, length)

\* C8 as amended: move(length, from, to) with from + length <= to puts the
\* bytes of [from, from+length) at [t, t+length), t the smaller of to and
\* the buffer length less length: to is an offset in the buffer the block
\* was taken out of.  The buffer keeps its length, the other bytes their
\* order.
C8_MoveLandsAtTo ==
    MoveExplicit
    => LET length == hist.args[1]
           from_  == The(hist.args[2])
           to_    == The(hist.args[3])
           b      == The(hist.before)
           t      == Min(to_, Len(b) - length)
       IN  (from_ + length <= to_ /\ to_ <= Len(b))
           => /\ Len(Buf) = Len(b)
              /\ SubSeq(Buf, t + 1, t + length)
                   = SubSeq(b, from_ + 1, from_ + length)
              /\ Without(Buf, t, length) = Without(b, from_, length)

\* a block of two bytes was moved towards the end, past other bytes
C8_Witness ==
    /\ MoveExplicit
    /\ hist.args[1] = 2
    /\ The(hist.args[2]) + 2 <= The(hist.args[3])
    /\ The(hist.args[3]) + 2 <= Len(The(hist.before))
    /\ Buf # The(hist.before)

\* C9: fill_zeros(length, pos) with pos passed and pos + length within the
\* buffer makes every byte of [pos, pos+length) zero and leaves every other
\* byte as it was.
C9_FillZeros ==
    (/\ hist.op = "fill_zeros"
     /\ raised = ""
     /\ ~IsNone(hist.before)
     /\ ~IsNone(hist.args[2]))
    => LET length == hist.args[1]
           pos    == The(hist.args[2])
           b      == The(hist.before)
       IN  pos + length <= Len(b)
           => /\ Len(Buf) = Len(b)
              /\ \A k \in 1..Len(b) :
                    Buf[k] = IF pos < k /\ k <= pos + length THEN 0 ELSE b[k]

\* two bytes amid the buffer were zeroed
C9_Witness ==
    /\ hist.op = "fill_zeros"
    /\ raised = ""
    /\ ~IsNone(hist.before)
    /\ ~IsNone(hist.args[2])
    /\ hist.args[1] = 2
    /\ The(hist.args[2]) = 1
    /\ The(hist.before) = Ramp
    /\ Buf[2] = 0 /\ Buf[3] = 0 /\ Buf[1] = 1 /\ Buf[BufLen] = BufLen

\* C10: random_glitches, once entered, leaves its loop, and when it returns
\* the budget left is zero and the sizes passed to the operations add up to
\* the amount asked for.
C10_BudgetSpentExactly ==
    /\ [](rg.pc = "done" => (rg.glitch_amount = 0 /\ rg.sum = rg.total))
    /\ []<>(rg.pc # "loop")

\* random_glitches returned after more than one operation, the last one cut
\* down to the budget that was left
C10_Witness ==
    /\ rg.pc = "done"
    /\ rg.total = MaxAmount
    /\ hist.args[1] < rg.total
    /\ hist.args[1] < 2

\* the identities in a list of Chunk objects
Ids(ids) == {ids[i] : i \in 1..Len(ids)}

\* C11: once glitch_file is called, whatever its generator yields and
\* whatever is set on a yielded container, the original's header and chunks
\* are as they were read, it has no working buffer, and no Chunk object
\* belongs to two of the containers.
C11_OriginalUntouched ==
    ~IsNone(gen)
    => /\ AsLoaded
       /\ IsNone(_decompressed)
       /\ \A k \in 1..Len(yielded) :
             Ids(yielded[k].chunks) \cap Ids(chunk_ids) = {}
       /\ \A j, k \in 1..Len(yielded) :
             j # k => Ids(yielded[j].chunks) \cap Ids(yielded[k].chunks) = {}

\* of two containers yielded, the second got a new payload in a chunk that
\* end_glitching took over from the copy of the original
C11_Witness ==
    /\ Len(yielded) >= 2
    /\ hist.op = "copy_set_payload"
    /\ hist.args[1] = 2
    /\ LET c == heap[yielded[2].chunks[hist.args[2]]]
       IN  /\ c.name = tEXt
           /\ c.raw_data # chunks[hist.args[2]].raw_data

\* a container of Chunk objects is a well-formed PNG file in memory
WellFormed(c) ==
    LET chs == Deref(heap, c.chunks)
    IN  /\ c.header = magic_header
        /\ chs # <<>>
        /\ chs[Len(chs)].name = IEND
        /\ \A i \in 1..Len(chs) :
              /\ chs[i].length = Len(chs[i].raw_data)
              /\ chs[i].crc = crc32(chs[i].name \o chs[i].raw_data)

\* C12: the generator of glitch_file on a container loaded from a
\* well-formed PNG file, run to its end, has yielded as many containers as
\* were asked for, each with the signature, an IEND chunk at its end, and in
\* every chunk the length and CRC of its payload.
C12_CopiesAreValidPngs ==
    (/\ ~IsNone(gen)
     /\ The(gen).pc = "finished"
     /\ The(file) = PixelFile)
    => /\ Len(yielded) = The(gen).copies
       /\ \A k \in 1..Len(yielded) : WellFormed(yielded[k])

\* the last call was a primitive on a working buffer, with a position passed
\* and a range from that position that does not lie within the buffer
OutOfRangeCall ==
    /\ ~IsNone(hist.before)
    /\ LET L == Len(The(hist.before))
       IN  \/ /\ hist.op = "replace"
              /\ hist.args[1] + Len(hist.args[2]) > L
           \/ /\ hist.op \in {"fill_noise", "fill_zeros"}
              /\ ~IsNone(hist.args[2])
              /\ The(hist.args[2]) + hist.args[1] > L
           \/ /\ hist.op = "move"
              /\ ~IsNone(hist.args[2])
              /\ The(hist.args[2]) + hist.args[1] > L

\* C13: a primitive called with a position passed and a range that reaches
\* past the end of the working buffer raises OutOfBounds and leaves the
\* buffer as it was.
C13_OutOfRangeIsRejected ==
    OutOfRangeCall => (raised = "OutOfBounds" /\ Buf = The(hist.before))

\* C15: switch with both lengths and positions passed, on two blocks that do
\* not overlap and lie within the buffer P A G B S, leaves the buffer
\* P B G A S, whatever the two lengths.
C15_SwitchExchanges ==
    SwitchExplicit
    => LET len_one == hist.args[1]
           pos_one == The(hist.args[2])
           len_two == The(hist.args[3])
           pos_two == The(hist.args[4])
           b       == The(hist.before)
           P       == SubSeq(b, 1, pos_one)
           A       == SubSeq(b, pos_one + 1, pos_one + len_one)
           G       == SubSeq(b, pos_one + len_one + 1, pos_two)
           B       == SubSeq(b, pos_two + 1, pos_two + len_two)
           S       == SubSeq(b, pos_two + len_two + 1, Len(b))
       IN  (pos_one + len_one <= pos_two /\ pos_two + len_two <= Len(b))
           => Buf = P \o B \o G \o A \o S

\* the calls of the glitch primitives
Primitives == {"replace", "fill_noise", "fill_zeros", "move", "switch"}

Iterated == hist.op \in method_list
PassedSize == hist.args[1]
BudgetBefore == rg.glitch_amount + hist.args[1]

\* C16 as stated: the size passed to the operation of an iteration lies in
\* [2, remaining_budget], the budget before the iteration's decrement.
C16_SizeWithinTwoAndBudget ==
    Iterated => (2 <= PassedSize /\ PassedSize <= BudgetBefore)

\* C16: the size passed to the operation of an iteration is at most the
\* budget before the decrement; it is at least 2 when that budget is at
\* least 2, and the whole budget when that is less.
C16_SizeWithinBudget ==
    Iterated
    => /\ PassedSize <= BudgetBefore
       /\ BudgetBefore >= 2 => PassedSize >= 2
       /\ BudgetBefore < 2 => PassedSize = BudgetBefore

\* after an iteration of size 2 or more, one with a budget of 1 left
C16_Witness ==
    /\ Iterated
    /\ BudgetBefore = 1
    /\ PassedSize = 1
    /\ rg.total >= 3

\* C17: an operation that random_glitches applies to a working buffer, with
\* the size only, does not fail and leaves the buffer its length, whatever
\* the length of the buffer and the amount asked for.
C17_DriverNeverFails ==
    (Iterated /\ ~IsNone(_decompressed))
    => (raised = "" /\ Len(Buf) = len0)

====
